---- MODULE Spec2Model ----
(***************************************************************************)
(* MindMate chat back end (src/app.py, src/emotion_model.py): the /chat    *)
(* handler, its in-memory session state, the rolling context window, the   *)
(* stress assessment and the reply chain OpenAI -> Hugging Face -> static  *)
(* fallback table.  Texts are strings; keyword rules are the substring     *)
(* tests of the source, on the lower-cased text.                           *)
(***************************************************************************)
EXTENDS Integers, Sequences, FiniteSets, TLC

\* ------------------------------------------------------------------ bounds
\* Messages handled per run of the main specification.
MaxTurns == 3
\* Messages handled per run of the long-conversation specification.
MaxLongTurns == 5
\* Messages handled per run of the reply-chain specification.
MaxChainTurns == 2
\* Messages handled per run of the assessment specification.
MaxAssessTurns == 5
\* Messages handled per run of the two-caller specification.
MaxCallerTurns == 3
\* Requests received per run of the concurrent specification.
MaxConcTurns == 6

\* ------------------------------------------------------- Python's values
\* Python's None (an unset key, stage None, gpt_reply's "no reply").
None == "None"

\* Python's truth test of a string or None: `not v`.
Falsy(v) == v = None \/ v = ""

\* ---------------------------------------------------------- string helpers
\* `k in t` for Python strings: k is a substring of t.
Contains(k, t) ==
    \E i \in 1..(Len(t) - Len(k) + 1) : SubSeq(t, i, i + Len(k) - 1) = k

\* any(k in t for k in ks)
ContainsAny(ks, t) == \E k \in ks : Contains(k, t)

LowerChar(c) ==
    CASE c = "A" -> "a" [] c = "B" -> "b" [] c = "C" -> "c" [] c = "D" -> "d"
      [] c = "E" -> "e" [] c = "F" -> "f" [] c = "G" -> "g" [] c = "H" -> "h"
      [] c = "I" -> "i" [] c = "J" -> "j" [] c = "K" -> "k" [] c = "L" -> "l"
      [] c = "M" -> "m" [] c = "N" -> "n" [] c = "O" -> "o" [] c = "P" -> "p"
      [] c = "Q" -> "q" [] c = "R" -> "r" [] c = "S" -> "s" [] c = "T" -> "t"
      [] c = "U" -> "u" [] c = "V" -> "v" [] c = "W" -> "w" [] c = "X" -> "x"
      [] c = "Y" -> "y" [] c = "Z" -> "z" [] OTHER -> c

\* str.lower()
RECURSIVE Lower(_)
Lower(s) ==
    IF s = "" THEN ""
    ELSE LowerChar(SubSeq(s, 1, 1)) \o Lower(SubSeq(s, 2, Len(s)))

IsSpace(c) == c \in {" ", "\t", "\n"}

RECURSIVE LStrip(_)
LStrip(s) ==
    IF s # "" /\ IsSpace(SubSeq(s, 1, 1)) THEN LStrip(SubSeq(s, 2, Len(s))) ELSE s

RECURSIVE RStrip(_)
RStrip(s) ==
    IF s # "" /\ IsSpace(SubSeq(s, Len(s), Len(s)))
    THEN RStrip(SubSeq(s, 1, Len(s) - 1)) ELSE s

\* str.strip()
Strip(s) == RStrip(LStrip(s))

\* The messages of the main specification: one per routing case and overlap.
Messages ==
    { "   ",                    \* nothing after strip()
      "Reset",                  \* the reset command
      "i feel stressed",        \* a negative cue
      "yes",                    \* an affirmative word
      "help me relax",          \* a relaxation keyword
      "cool down",              \* a relaxation keyword that holds the negative cue "down"
      "yes i am sad",           \* affirmative and negative
      "ok lets breathe",        \* affirmative and relaxation
      "i want to end my life",  \* a crisis phrase
      "Often",                  \* an assessment answer
      "i am glad" }             \* plain chat, emotion by keyword

\* The messages of the long-conversation specification.
LongMessages ==
    {"   ", "Reset", "i feel stressed", "yes", "help me relax", "Often", "sometimes", "rarely "}

\* The messages of the reply-chain specification: free chat and a reset.
ChainMessages == {"Reset", "hello there", "i am glad", "i want to end my life"}

\* The messages of the two-caller specification.
CallerMessages == {"   ", "Reset", "i feel stressed", "yes", "help me relax", "Often"}

\* The messages of the concurrent specification.
ConcMessages == {"i feel stressed", "yes", "Often"}

\* The answers sent concurrently in the concurrent specification.
ConcAnswers == {"Often", "i feel stressed", "help me relax"}

\* The messages of the assessment specification: the offer, its acceptance
\* (answers of 0 points when sent during the test) and answers of 3, 2 and 1
\* points, one of them holding two of the scored words.
AssessMessages ==
    {"I feel stressed", "yes", "often", "sometimes", "rarely", "not often, rarely"}

\* Who sends requests in the two-caller specification.
Callers == {"A", "B"}

\* Every message some specification sends.
Universe ==
    Messages \cup LongMessages \cup ChainMessages \cup CallerMessages \cup ConcMessages
      \cup AssessMessages

\* request.form.get("message", "").strip(), tabulated over the messages.
Stripped == [raw \in Universe |-> Strip(raw)]

\* The stripped texts the handler works on.
Texts == {Stripped[raw] : raw \in Universe}

\* text.lower(), tabulated over the texts.
Lowered == [text \in Texts |-> Lower(text)]

\* ------------------------------------------------- emotion_model.py
\* KEYWORDS, in the dict's insertion order (the order get_emotion scans it).
KEYWORDS ==
    << <<"happy", "joy">>, <<"glad", "joy">>, <<"excited", "joy">>, <<"awesome", "joy">>,
       <<"sad", "sadness">>, <<"unhappy", "sadness">>, <<"depressed", "sadness">>,
       <<"cry", "sadness">>, <<"low", "sadness">>, <<"not good", "sadness">>,
       <<"bad", "sadness">>, <<"moody", "sadness">>,
       <<"angry", "anger">>, <<"mad", "anger">>, <<"furious", "anger">>,
       <<"scared", "fear">>, <<"afraid", "fear">>, <<"nervous", "fear">>,
       <<"worried", "fear">>, <<"anxious", "fear">>, <<"anxiety", "fear">>,
       <<"love", "love">>, <<"like", "love">>, <<"care", "love">>,
       <<"shock", "surprise">>, <<"wow", "surprise">>, <<"unexpected", "surprise">> >>

\* What the classifier pipeline does on a text that no keyword decides: it
\* returns the best label, or raises (model not loaded, inference error).
Raise == "Raise"
ClassifierOutcomes == {"joy", "disgust", Raise}

\* The first keyword of KEYWORDS found in t, as an index (0: none).
KeywordHit(t) ==
    LET hits == {i \in 1..Len(KEYWORDS) : Contains(KEYWORDS[i][1], t)}
    IN  IF hits = {} THEN 0 ELSE CHOOSE i \in hits : \A j \in hits : i <= j

\* KeywordHit of each text's lower case, tabulated.
KeywordHitOf == [text \in Texts |-> KeywordHit(Lowered[text])]

\* Whether get_emotion reaches the classifier on this text.
NeedsClassifier(text) == KeywordHitOf[text] = 0

\* get_emotion(text), c being what the classifier does if it is reached.
get_emotion(text, c) ==
    LET i == KeywordHitOf[text]
    IN  IF i # 0 THEN KEYWORDS[i][2]
        ELSE IF c = Raise THEN Raise ELSE Lower(c)

\* ------------------------------------------------------- app.py constants
STRESS_QUESTIONS ==
    << "Do you often feel overwhelmed or tense? (Often / Sometimes / Rarely)",
       "Do you have trouble relaxing or sleeping? (Often / Sometimes / Rarely)",
       "Do you find it hard to focus on tasks? (Often / Sometimes / Rarely)" >>

RELAXATION_SNIPPET == "Here are quick relaxation tools: ..."

FALLBACK_RESPONSES ==
    [ joy      |-> << "That's wonderful. What made your day brighter?",
                      "Love that energy - what went well?" >>,
      love     |-> << "That sounds meaningful. What sparked that feeling?",
                      "Hold onto that warmth - want to share more?" >>,
      sadness  |-> << "I'm sorry it feels heavy. What's weighing on you most?",
                      "It's okay to not be okay - I'm here with you." >>,
      fear     |-> << "That sounds unsettling. Let's take one slow breath together.",
                      "You're not alone. What's the biggest worry right now?" >>,
      anger    |-> << "It's valid to feel angry. What triggered it?",
                      "Let's unpack it gently - what might help release it a bit?" >>,
      surprise |-> << "Whoa - unexpected! How are you feeling about it now?",
                      "Surprises can throw us off - was it good or tough?" >>,
      neutral  |-> << "I'm here - what's been on your mind today?",
                      "Tell me more; I'm listening." >> ]

\* FALLBACK_RESPONSES.get(emotion, FALLBACK_RESPONSES["neutral"])
FallbackBucket(emotion) ==
    IF emotion \in DOMAIN FALLBACK_RESPONSES
    THEN FALLBACK_RESPONSES[emotion] ELSE FALLBACK_RESPONSES["neutral"]

\* gpt_reply's fixed crisis message.
CRISIS_REPLY ==
    "I'm really glad you told me. Your safety matters. If you're in immediate danger, please call 112 (India) or reach out to a trusted person nearby."

crisis_terms ==
    {"suicide", "kill myself", "end my life", "self harm", "cut myself", "hurt myself"}

RESET_WORDS == {"restart", "reset", "clear chat", "start over"}

NEGATIVE_WORDS ==
    {"not good", "sad", "down", "depressed", "anxious", "stressed", "overwhelmed",
     "angry", "tensed", "tired", "worried"}

AFFIRMATIVE_WORDS == {"yes", "sure", "ok", "start", "take test", "yeah", "yup"}

RELAX_WORDS ==
    {"relax", "calm", "breathe", "meditate", "anger control", "cool down", "stress relief"}

RESET_REPLY == "Chat cleared. Hey there! How are you feeling today?"
EMPTY_REPLY == "Could you share that again?"
OFFER_REPLY == "It sounds tough. Want to take a quick 3-question stress check?"

\* The default of add_context's keep_last, and recent_context_text's slice.
KEEP_LAST == 8

\* ------------------------------------------------------------- helpers
\* state["context"][-n:]
LastN(seq, n) ==
    IF Len(seq) > n THEN SubSeq(seq, Len(seq) - n + 1, Len(seq)) ELSE seq

\* The line add_context formats: f"{role}: {text}".
Entry(role, text) == role \o ": " \o text

\* add_context with the slice taken from the wrong end: [:keep_last].
add_context_KeepsOldest(ctx, role, text) ==
    LET appended == Append(ctx, Entry(role, text))
    IN  IF Len(appended) > KEEP_LAST THEN SubSeq(appended, 1, KEEP_LAST) ELSE appended

\* add_context(role, text) applied to the context ctx.
add_context(ctx, role, text) ==
    LET appended == Append(ctx, Entry(role, text))
    IN  IF Len(appended) > KEEP_LAST THEN LastN(appended, KEEP_LAST) ELSE appended

RECURSIVE Join(_, _)
\* sep.join(seq)
Join(sep, seq) ==
    IF seq = <<>> THEN ""
    ELSE IF Len(seq) = 1 THEN seq[1]
    ELSE seq[1] \o sep \o Join(sep, Tail(seq))

\* recent_context_text() on the context ctx.
recent_context_text(ctx) == Join("\n", LastN(ctx, 8))

\* ---------------------------------------------------- provider responses
\* What one requests.post(...) to a provider does:
\*   exc    the call raises (timeout, connection error)
\*   status the HTTP status of the response
\*   kind   what .json() gives: "notjson" (it raises), "dict" or "list"
\*   keys   the keys of the dict, or of the first item of the list
\*   n      the length of data["choices"] (OpenAI) or of the list (Hugging Face)
\*   text   choices[0].message.content, or generated_text
Resp(exc, status, kind, keys, n, text) ==
    [exc |-> exc, status |-> status, kind |-> kind, keys |-> keys, n |-> n, text |-> text]

GPT_TEXT == " Take one slow breath with me. What feels heaviest? "
HF_TEXT  == " I hear you. Maybe a short walk? "

GptTimeout   == Resp(TRUE, 0, "notjson", {}, 0, "")
GptNon200    == Resp(FALSE, 429, "dict", {"error"}, 0, "")
GptNotJson   == Resp(FALSE, 200, "notjson", {}, 0, "")
GptNoChoices == Resp(FALSE, 200, "dict", {"error"}, 0, "")
GptEmptyList == Resp(FALSE, 200, "dict", {"choices"}, 0, "")
GptNoContent == Resp(FALSE, 200, "dict", {"choices"}, 1, "")
GptBlank     == Resp(FALSE, 200, "dict", {"choices"}, 1, "  ")
GptOk        == Resp(FALSE, 200, "dict", {"choices"}, 1, GPT_TEXT)

HfTimeout  == Resp(TRUE, 0, "notjson", {}, 0, "")
HfNotJson  == Resp(FALSE, 502, "notjson", {}, 0, "")
HfLoading  == Resp(FALSE, 503, "dict", {"error", "estimated_time"}, 0, "")
HfNoItems  == Resp(FALSE, 200, "list", {}, 0, "")
HfBlank    == Resp(FALSE, 200, "list", {"generated_text"}, 1, "  ")
HfOkList   == Resp(FALSE, 200, "list", {"generated_text"}, 1, HF_TEXT)
HfOkDict   == Resp(FALSE, 200, "dict", {"generated_text"}, 0, HF_TEXT)

GptResponses ==
    {GptTimeout, GptNon200, GptNotJson, GptNoChoices, GptEmptyList, GptNoContent,
     GptBlank, GptOk}
HfResponses == {HfTimeout, HfNotJson, HfLoading, HfNoItems, HfBlank, HfOkList, HfOkDict}

\* A request that was not made.
NoCall == Resp(FALSE, -1, "notjson", {}, 0, "")

\* ----------------------------------------------------------- gpt_reply
CrisisTexts == {text \in Texts : ContainsAny(crisis_terms, Lowered[text])}
IsCrisis(user_text) == user_text \in CrisisTexts

\* Whether gpt_reply posts to the OpenAI API.
GptCalls(key, user_text) == ~Falsy(key) /\ ~IsCrisis(user_text)

\* What gpt_reply makes of the response g.
GptParse(g) ==
    IF g.exc THEN None
    ELSE IF g.status # 200 THEN None
    ELSE IF g.kind = "notjson" THEN None
    ELSE IF g.kind = "dict" /\ "choices" \in g.keys /\ g.n > 0
         THEN (IF g.text # "" THEN Strip(g.text) ELSE None)
    ELSE None

\* gpt_reply(user_text, emotion) with the key `key` and the API answering g.
gpt_reply(key, user_text, g) ==
    IF Falsy(key) THEN None
    ELSE IF IsCrisis(user_text) THEN CRISIS_REPLY
    ELSE GptParse(g)

\* ------------------------------------------------------ hf_fallback_reply
\* The generated text the code takes from one response (None: it takes none).
HfParse(h) ==
    IF h.exc \/ h.kind = "notjson" THEN None
    ELSE IF h.kind = "dict" /\ "generated_text" \in h.keys THEN Strip(h.text)
    ELSE IF h.kind = "list" /\ h.n > 0 /\ "generated_text" \in h.keys THEN Strip(h.text)
    ELSE None

\* Whether the code posts a second time after the response h.
HfRetries(h) ==
    /\ ~h.exc
    /\ h.kind = "dict"
    /\ "generated_text" \notin h.keys
    /\ "error" \in h.keys

\* random.choice(FALLBACK_RESPONSES.get(emotion, FALLBACK_RESPONSES["neutral"]))
StaticFallback(emotion, pick) == FallbackBucket(emotion)[pick]

\* Whether hf_fallback_reply ends in the static table.
HfUsesStatic(h1, h2) ==
    HfParse(h1) = None /\ ~(HfRetries(h1) /\ HfParse(h2) # None)

\* hf_fallback_reply(user_text, emotion): h1 and h2 are the answers to the first
\* and the second post, pick is random.choice's index.
hf_fallback_reply(emotion, h1, h2, pick) ==
    IF HfParse(h1) # None THEN HfParse(h1)
    ELSE IF HfRetries(h1) /\ HfParse(h2) # None THEN HfParse(h2)
    ELSE StaticFallback(emotion, pick)

\* -------------------------------------------------------- stress helpers
\* One answer's points in score_stress.
AnswerPoints(a) ==
    LET t == Lowered[a]
    IN  IF Contains("often", t) THEN 3
        ELSE IF Contains("sometimes", t) THEN 2
        ELSE IF Contains("rarely", t) THEN 1
        ELSE 0

\* AnswerPoints, tabulated over the texts.
PointsOf == [a \in Texts |-> AnswerPoints(a)]

RECURSIVE score_stress(_)
score_stress(answers) ==
    IF answers = <<>> THEN 0
    ELSE PointsOf[Head(answers)] + score_stress(Tail(answers))

\* stress_recommendation with the first threshold strict: score > 7.
stress_level_StrictHigh(score) ==
    IF score > 7 THEN "High"
    ELSE IF score >= 4 THEN "Moderate"
    ELSE "Low"

\* stress_recommendation(score)["level"]
stress_level(score) ==
    IF score >= 7 THEN "High"
    ELSE IF score >= 4 THEN "Moderate"
    ELSE "Low"

\* The result reply chat() formats from stress_recommendation(score).
ResultReply(score) ==
    "Stress Level: " \o stress_level(score) \o " (advice and 3 suggested actions)"

\* ------------------------------------------------------------------ state
VARIABLES
    state,       \* app.py's module-level dict: stage, answers, offered_stress, context
    OPENAI_KEY,  \* os.getenv("OPENAI_API_KEY"), read once at start
    HF_TOKEN,    \* os.getenv("HF_TOKEN", ""), read once at start
    response,    \* what the last request returned: reply, type, HTTP status
    emotion,     \* get_emotion's result in the last request (None: not called)
    calls,       \* the provider requests the last request posted, in order
    scored,      \* the answers the last request passed to score_stress
    log,         \* every line appended to the context since the last reset
    turns,       \* requests handled so far
    caller,      \* who sent the last request
    message,     \* the message of the last request, as received
    route,       \* the branch of chat() that handled the last request
    prev,        \* the value of state when the last request arrived
    pc,          \* per thread: where its request stands in chat()
    tl           \* per thread: the locals of its request

vars ==
    <<state, OPENAI_KEY, HF_TOKEN, response, emotion, calls, scored, log, turns, caller,
      message, route, prev, pc, tl>>

Threads == {1, 2}

\* state = {"stage": None, "answers": [], "offered_stress": False, "context": []}
InitialState ==
    [stage |-> None, answers |-> <<>>, offered_stress |-> FALSE, context |-> <<>>]

NoLocals == [who |-> None, raw |-> None, arrived |-> InitialState, score |-> 0, answers |-> <<>>]

\* The process after start-up, its two credentials read from the environment.
InitEnv(keys, tokens) ==
    /\ state = InitialState
    /\ OPENAI_KEY \in keys
    /\ HF_TOKEN \in tokens
    /\ response = [reply |-> "", type |-> None, status |-> 0]
    /\ emotion = None
    /\ calls = <<>>
    /\ scored = <<>>
    /\ log = <<>>
    /\ turns = 0
    /\ caller = None
    /\ message = None
    /\ route = None
    /\ prev = InitialState
    /\ pc = [t \in Threads |-> "idle"]
    /\ tl = [t \in Threads |-> NoLocals]

\* jsonify({"reply": reply, "type": type}), HTTP 200
Ok(reply, type) == [reply |-> reply, type |-> type, status |-> 200]

\* An exception leaves chat(): Flask answers 500.
ServerError == [reply |-> "", type |-> "error", status |-> 500]

\* ------------------------------------------------------------- the router
\* The texts each keyword test of chat() accepts.
ResetTexts       == {text \in Texts : ContainsAny(RESET_WORDS, Lowered[text])}
NegativeTexts    == {text \in Texts : ContainsAny(NEGATIVE_WORDS, Lowered[text])}
AffirmativeTexts == {text \in Texts : ContainsAny(AFFIRMATIVE_WORDS, Lowered[text])}
RelaxTexts       == {text \in Texts : ContainsAny(RELAX_WORDS, Lowered[text])}

IsReset(text)       == text \in ResetTexts
IsNegative(text)    == text \in NegativeTexts
IsAffirmative(text) == text \in AffirmativeTexts
IsRelax(text)       == text \in RelaxTexts

\* The branches with the acceptance test missing state.get("offered_stress").
Route_AcceptsUnoffered(st, text) ==
    IF text = "" THEN "empty"
    ELSE IF IsReset(text) THEN "reset"
    ELSE IF st.stage = "stress" THEN "stress"
    ELSE IF IsNegative(text) THEN "offer"
    ELSE IF IsAffirmative(text) THEN "accept"
    ELSE IF IsRelax(text) THEN "relax"
    ELSE "generate"

\* The branch of chat() that handles the stripped text in the session st,
\* in the order the code tests them.
Route(st, text) ==
    IF text = "" THEN "empty"
    ELSE IF IsReset(text) THEN "reset"
    ELSE IF st.stage = "stress" THEN "stress"
    ELSE IF IsNegative(text) THEN "offer"
    ELSE IF st.offered_stress /\ IsAffirmative(text) THEN "accept"
    ELSE IF IsRelax(text) THEN "relax"
    ELSE "generate"

\* The classifier outcomes to consider for a text (one dummy if not reached).
ClassifierCases(text, C) == IF NeedsClassifier(text) THEN C ELSE {None}

\* The session chat() uses for a caller, given the module-level dict st: the
\* dict itself, whoever calls.
SessionOf(who, st) == st

\* What every request records.
Observed(who, raw, rt, pv, resp, emo, cs, sc) ==
    /\ caller' = who
    /\ message' = raw
    /\ route' = rt
    /\ prev' = pv
    /\ response' = resp
    /\ emotion' = emo
    /\ calls' = cs
    /\ scored' = sc
    /\ UNCHANGED <<OPENAI_KEY, HF_TOKEN>>

\* A request answered by the statements of one step.
Served(who, raw, resp, emo, cs, sc) ==
    Observed(who, raw, Route(state, Stripped[raw]), state, resp, emo, cs, sc)

\* The empty message with the user's line added to the context before the test.
ChatEmpty_AddsContext(who, raw) ==
    /\ Route(state, Stripped[raw]) = "empty"
    /\ state' = [state EXCEPT !.context = add_context(@, "User", Stripped[raw])]
    /\ log' = Append(log, Entry("User", Stripped[raw]))
    /\ Served(who, raw, Ok(EMPTY_REPLY, "chat"), None, <<>>, <<>>)

\* chat(), lines 247-249: nothing to read in the message.
ChatEmpty(who, raw) ==
    /\ Route(state, Stripped[raw]) = "empty"
    /\ UNCHANGED <<state, log>>
    /\ Served(who, raw, Ok(EMPTY_REPLY, "chat"), None, <<>>, <<>>)

\* The reset command with "context" missing from the update.
ChatReset_KeepsContext(who, raw) ==
    /\ Route(state, Stripped[raw]) = "reset"
    /\ state' = [InitialState EXCEPT !.context = state.context]
    /\ log' = <<>>
    /\ Served(who, raw, Ok(RESET_REPLY, "chat"), None, <<>>, <<>>)

\* chat(), lines 251-254: the reset command.
ChatReset(who, raw) ==
    /\ Route(state, Stripped[raw]) = "reset"
    /\ state' = InitialState
    /\ log' = <<>>
    /\ Served(who, raw, Ok(RESET_REPLY, "chat"), None, <<>>, <<>>)

\* The stress branch with the question index off by one:
\* STRESS_QUESTIONS[len(state["answers"]) - 1].
ChatStress_RepeatsQuestion(who, raw) ==
    LET text    == Stripped[raw]
        answers == Append(state.answers, text)
    IN  /\ Route(state, text) = "stress"
        /\ IF Len(answers) >= 3
           THEN LET reply == ResultReply(score_stress(answers))
                IN  /\ state' = [stage |-> None, answers |-> <<>>, offered_stress |-> FALSE,
                                 context |-> add_context(state.context, "MindMate", reply)]
                    /\ log' = Append(log, Entry("MindMate", reply))
                    /\ Served(who, raw, Ok(reply, "result"), None, <<>>, answers)
           ELSE LET q == STRESS_QUESTIONS[Len(answers)]
                IN  /\ state' = [state EXCEPT !.answers = answers,
                                              !.context = add_context(@, "MindMate", q)]
                    /\ log' = Append(log, Entry("MindMate", q))
                    /\ Served(who, raw, Ok(q, "stress"), None, <<>>, <<>>)

\* The stress branch with "answers": [] missing from the update after the result.
ChatStress_KeepsAnswers(who, raw) ==
    LET text    == Stripped[raw]
        answers == Append(state.answers, text)
    IN  /\ Route(state, text) = "stress"
        /\ IF Len(answers) >= 3
           THEN LET reply == ResultReply(score_stress(answers))
                IN  /\ state' = [stage |-> None, answers |-> answers, offered_stress |-> FALSE,
                                 context |-> add_context(state.context, "MindMate", reply)]
                    /\ log' = Append(log, Entry("MindMate", reply))
                    /\ Served(who, raw, Ok(reply, "result"), None, <<>>, answers)
           ELSE LET q == STRESS_QUESTIONS[Len(answers) + 1]
                IN  /\ state' = [state EXCEPT !.answers = answers,
                                              !.context = add_context(@, "MindMate", q)]
                    /\ log' = Append(log, Entry("MindMate", q))
                    /\ Served(who, raw, Ok(q, "stress"), None, <<>>, <<>>)

\* chat(), lines 256-272: an answer of the ongoing stress test.
ChatStress(who, raw) ==
    LET text    == Stripped[raw]
        answers == Append(state.answers, text)
    IN  /\ Route(state, text) = "stress"
        /\ IF Len(answers) >= 3
           THEN LET reply == ResultReply(score_stress(answers))
                IN  /\ state' = [stage |-> None, answers |-> <<>>, offered_stress |-> FALSE,
                                 context |-> add_context(state.context, "MindMate", reply)]
                    /\ log' = Append(log, Entry("MindMate", reply))
                    /\ Served(who, raw, Ok(reply, "result"), None, <<>>, answers)
           ELSE LET q == STRESS_QUESTIONS[Len(answers) + 1]
                IN  /\ state' = [state EXCEPT !.answers = answers,
                                              !.context = add_context(@, "MindMate", q)]
                    /\ log' = Append(log, Entry("MindMate", q))
                    /\ Served(who, raw, Ok(q, "stress"), None, <<>>, <<>>)

\* chat(), line 275: get_emotion raises and nothing catches it.
ChatClassifierError(who, raw, C) ==
    LET text == Stripped[raw]
    IN  /\ Route(state, text) \in {"offer", "accept", "relax", "generate"}
        /\ \E c \in ClassifierCases(text, C) :
              /\ get_emotion(text, c) = Raise
              /\ UNCHANGED <<state, log>>
              /\ Served(who, raw, ServerError, Raise, <<>>, <<>>)

\* chat(), lines 277-284: a negative cue, the stress test is offered.
ChatOffer(who, raw, C) ==
    LET text == Stripped[raw]
    IN  /\ Route(state, text) = "offer"
        /\ \E c \in ClassifierCases(text, C) :
              /\ get_emotion(text, c) # Raise
              /\ state' = [state EXCEPT
                             !.offered_stress = TRUE,
                             !.context = add_context(add_context(@, "User", text),
                                                     "MindMate", OFFER_REPLY)]
              /\ log' = log \o <<Entry("User", text), Entry("MindMate", OFFER_REPLY)>>
              /\ Served(who, raw, Ok(OFFER_REPLY, "offer_test"), get_emotion(text, c), <<>>, <<>>)

\* chat(), lines 286-291: the offer is accepted, the stress test starts.
ChatAccept(who, raw, C) ==
    LET text == Stripped[raw]
        q    == STRESS_QUESTIONS[1]
    IN  /\ Route(state, text) = "accept"
        /\ \E c \in ClassifierCases(text, C) :
              /\ get_emotion(text, c) # Raise
              /\ state' = [stage |-> "stress", answers |-> <<>>, offered_stress |-> FALSE,
                           context |-> add_context(add_context(state.context, "User", text),
                                                   "MindMate", q)]
              /\ log' = log \o <<Entry("User", text), Entry("MindMate", q)>>
              /\ Served(who, raw, Ok(q, "stress"), get_emotion(text, c), <<>>, <<>>)

\* chat(), lines 293-296: a relaxation keyword, the resources are listed.
ChatRelax(who, raw, C) ==
    LET text == Stripped[raw]
    IN  /\ Route(state, text) = "relax"
        /\ \E c \in ClassifierCases(text, C) :
              /\ get_emotion(text, c) # Raise
              /\ state' = [state EXCEPT
                             !.context = add_context(add_context(@, "User", text),
                                                     "MindMate", RELAXATION_SNIPPET)]
              /\ log' = log \o <<Entry("User", text), Entry("MindMate", RELAXATION_SNIPPET)>>
              /\ Served(who, raw, Ok(RELAXATION_SNIPPET, "resource"), get_emotion(text, c), <<>>, <<>>)

\* One provider request as `calls` records it.
Call(provider, auth, prompt, resp) ==
    [provider |-> provider, auth |-> auth, prompt |-> prompt, resp |-> resp]

\* chat(), lines 298-305: the reply is generated, OpenAI first, then
\* hf_fallback_reply (Hugging Face, then the static table).
ChatGenerate(who, raw, C, G, H) ==
    LET text == Stripped[raw]
        ctx1 == add_context(state.context, "User", text)
        prompt == recent_context_text(ctx1)
    IN  /\ Route(state, text) = "generate"
        /\ \E c \in ClassifierCases(text, C) :
           \E g \in (IF GptCalls(OPENAI_KEY, text) THEN G ELSE {NoCall}) :
              LET emo   == get_emotion(text, c)
                  gr    == gpt_reply(OPENAI_KEY, text, g)
                  useHf == Falsy(gr)
                  gcs   == IF GptCalls(OPENAI_KEY, text)
                           THEN <<Call("openai", "Bearer " \o OPENAI_KEY, prompt, g)>>
                           ELSE <<>>
                  hauth == IF HF_TOKEN # "" THEN "Bearer " \o HF_TOKEN ELSE None
              IN  /\ emo # Raise
                  /\ \E h1 \in (IF useHf THEN H ELSE {NoCall}) :
                     \E h2 \in (IF useHf /\ HfRetries(h1) THEN H ELSE {NoCall}) :
                     \E pick \in (IF useHf /\ HfUsesStatic(h1, h2) THEN 1..2 ELSE {1}) :
                        LET reply == IF useHf THEN hf_fallback_reply(emo, h1, h2, pick)
                                     ELSE gr
                            hcs   == IF ~useHf THEN <<>>
                                     ELSE IF HfRetries(h1)
                                     THEN <<Call("hf", hauth, prompt, h1),
                                            Call("hf", hauth, prompt, h2)>>
                                     ELSE <<Call("hf", hauth, prompt, h1)>>
                        IN  /\ state' = [state EXCEPT
                                           !.context = add_context(ctx1, "MindMate", reply)]
                            /\ log' = log \o <<Entry("User", text), Entry("MindMate", reply)>>
                            /\ Served(who, raw, Ok(reply, "chat"), emo, gcs \o hcs, <<>>)

\* No request is in flight.
Idle == \A t \in Threads : pc[t] = "idle"

\* One request, handled from start to end with no other request in flight:
\* who sends raw; C, G and H are what the classifier, the OpenAI API and the
\* Hugging Face API may do.
Chat(who, raw, C, G, H) ==
    /\ Idle
    /\ UNCHANGED <<pc, tl>>
    /\ turns' = turns + 1
    /\ \/ ChatEmpty(who, raw)
       \/ ChatReset(who, raw)
       \/ ChatStress(who, raw)
       \/ ChatClassifierError(who, raw, C)
       \/ ChatOffer(who, raw, C)
       \/ ChatAccept(who, raw, C)
       \/ ChatRelax(who, raw, C)
       \/ ChatGenerate(who, raw, C, G, H)

\* ------------------------------------------------------ specifications
\* Main specification: one caller, every routing case, the OpenAI key set or
\* not, providers that answer or time out.
Init == InitEnv({None, "sk-test"}, {""})

Next ==
    /\ turns < MaxTurns
    /\ \E raw \in Messages :
          Chat("A", raw, {"disgust", Raise}, {GptTimeout, GptOk}, {HfTimeout, HfOkList})

Spec == Init /\ [][Next]_vars

\* Long conversations: fewer messages, more turns, no OpenAI key, a Hugging
\* Face API that answers.
NextLong ==
    /\ turns < MaxLongTurns
    /\ \E raw \in LongMessages :
          Chat("A", raw, {"disgust", Raise}, {GptOk}, {HfOkList})

InitLong == InitEnv({None}, {""})

SpecLong == InitLong /\ [][NextLong]_vars

\* The reply chain: free chat only, every provider outcome, both credentials
\* set or not.
InitChain == InitEnv({None, "sk-test"}, {"", "hf-test"})

NextChain ==
    /\ turns < MaxChainTurns
    /\ Idle
    /\ UNCHANGED <<pc, tl>>
    /\ turns' = turns + 1
    /\ \E raw \in ChainMessages :
          \/ ChatReset("A", raw)
          \/ ChatClassifierError("A", raw, ClassifierOutcomes)
          \/ ChatGenerate("A", raw, ClassifierOutcomes, GptResponses, HfResponses)

SpecChain == InitChain /\ [][NextChain]_vars

\* ---------------------------------------------------- concurrent requests
\* The server runs chat() on a thread per request, and nothing locks the
\* module-level dict: between two statements of one request, statements of
\* another may run.  A step below is one statement of chat().
Goto(t, label) == pc' = [pc EXCEPT ![t] = label]

\* What a thread's steps leave alone until its request is answered.
Running ==
    UNCHANGED <<OPENAI_KEY, HF_TOKEN, response, emotion, calls, scored, caller, message,
                route, prev>>

\* The thread's request is answered.
Answered(t, rt, resp, sc) ==
    /\ Observed(tl[t].who, tl[t].raw, rt, tl[t].arrived, resp, None, <<>>, sc)
    /\ Goto(t, "idle")
    /\ UNCHANGED <<tl, turns>>

\* Lines 247-252: a thread takes a request that is neither empty nor a reset,
\* sent while the stress test is collecting answers.
T_Receive(t, who, raw) ==
    /\ pc[t] = "idle"
    /\ state.stage = "stress"
    /\ Stripped[raw] # "" /\ ~IsReset(Stripped[raw])
    /\ tl' = [tl EXCEPT ![t] = [NoLocals EXCEPT !.who = who, !.raw = raw, !.arrived = state]]
    /\ turns' = turns + 1
    /\ Goto(t, "L257")
    /\ UNCHANGED <<state, log>>
    /\ Running

\* Line 257, true: if state["stage"] == "stress"
T_L257(t) ==
    /\ pc[t] = "L257"
    /\ state.stage = "stress"
    /\ Goto(t, "L258")
    /\ UNCHANGED <<state, log, tl, turns>>
    /\ Running

\* Line 257, false, and lines 275-305: the request leaves the stress branch
\* and is handled as chat (the branches after it, in one step).
T_L275(t, C, G, H) ==
    /\ pc[t] = "L257"
    /\ state.stage # "stress"
    /\ Goto(t, "idle")
    /\ UNCHANGED tl
    /\ LET who == tl[t].who
           raw == tl[t].raw
       IN  /\ \/ ChatClassifierError(who, raw, C)
              \/ ChatOffer(who, raw, C)
              \/ ChatAccept(who, raw, C)
              \/ ChatRelax(who, raw, C)
              \/ ChatGenerate(who, raw, C, G, H)
           /\ UNCHANGED turns

\* Line 258: state["answers"].append(text)
T_L258(t) ==
    /\ pc[t] = "L258"
    /\ state' = [state EXCEPT !.answers = Append(@, Stripped[tl[t].raw])]
    /\ Goto(t, "L259")
    /\ UNCHANGED <<log, tl, turns>>
    /\ Running

\* Line 259: if len(state["answers"]) >= 3
T_L259(t) ==
    /\ pc[t] = "L259"
    /\ Goto(t, IF Len(state.answers) >= 3 THEN "L260" ELSE "L270")
    /\ UNCHANGED <<state, log, tl, turns>>
    /\ Running

\* Lines 260-261: score = score_stress(state["answers"]); rec = ...
T_L260(t) ==
    /\ pc[t] = "L260"
    /\ tl' = [tl EXCEPT ![t].score = score_stress(state.answers),
                        ![t].answers = state.answers]
    /\ Goto(t, "L262")
    /\ UNCHANGED <<state, log, turns>>
    /\ Running

\* Line 262: state.update({"stage": None, "answers": [], "offered_stress": False})
T_L262(t) ==
    /\ pc[t] = "L262"
    /\ state' = [state EXCEPT !.stage = None, !.answers = <<>>, !.offered_stress = FALSE]
    /\ Goto(t, "L267")
    /\ UNCHANGED <<log, tl, turns>>
    /\ Running

\* Lines 263-268: the result is added to the context and returned.
T_L267(t) ==
    /\ pc[t] = "L267"
    /\ LET reply == ResultReply(tl[t].score)
       IN  /\ state' = [state EXCEPT !.context = add_context(@, "MindMate", reply)]
           /\ log' = Append(log, Entry("MindMate", reply))
           /\ Answered(t, "stress", Ok(reply, "result"), tl[t].answers)

\* Lines 270-272: q = STRESS_QUESTIONS[len(state["answers"])], added to the
\* context and returned; past the last question the index raises IndexError.
T_L270(t) ==
    /\ pc[t] = "L270"
    /\ IF Len(state.answers) + 1 \in DOMAIN STRESS_QUESTIONS
       THEN LET q == STRESS_QUESTIONS[Len(state.answers) + 1]
            IN  /\ state' = [state EXCEPT !.context = add_context(@, "MindMate", q)]
                /\ log' = Append(log, Entry("MindMate", q))
                /\ Answered(t, "stress", Ok(q, "stress"), <<>>)
       ELSE /\ UNCHANGED <<state, log>>
            /\ Answered(t, "stress", ServerError, <<>>)

\* Requests one at a time (the conversation that starts the stress test and
\* answers it), and requests on two threads while answers are being collected.
NextConc ==
    \/ /\ turns < MaxConcTurns
       /\ Idle
       /\ UNCHANGED <<pc, tl>>
       /\ turns' = turns + 1
       /\ \E raw \in ConcMessages :
             \/ ChatStress("A", raw)
             \/ ChatOffer("A", raw, {"disgust"})
             \/ ChatAccept("A", raw, {"disgust"})
             \/ ChatGenerate("A", raw, {"disgust"}, {GptOk}, {HfOkList})
    \/ /\ turns < MaxConcTurns
       /\ \E t \in Threads, raw \in ConcAnswers : T_Receive(t, "A", raw)
    \/ \E t \in Threads :
          \/ T_L257(t)
          \/ T_L275(t, {"disgust", Raise}, {GptOk}, {HfOkList})
          \/ T_L258(t)
          \/ T_L259(t)
          \/ T_L260(t)
          \/ T_L262(t)
          \/ T_L267(t)
          \/ T_L270(t)

InitConc == InitEnv({None}, {""})

SpecConc == InitConc /\ [][NextConc]_vars

\* Two callers of the one process.
NextCallers ==
    /\ turns < MaxCallerTurns
    /\ \E who \in Callers, raw \in CallerMessages :
          Chat(who, raw, {"disgust", Raise}, {GptOk}, {HfOkList})

SpecCallers == Init /\ [][NextCallers]_vars

\* The guided assessment: a conversation that is offered the stress test,
\* accepts it and answers it, one request at a time.
NextAssess ==
    /\ turns < MaxAssessTurns
    /\ Idle
    /\ UNCHANGED <<pc, tl>>
    /\ turns' = turns + 1
    /\ \E raw \in AssessMessages :
          \/ ChatStress("A", raw)
          \/ ChatClassifierError("A", raw, {"disgust", Raise})
          \/ ChatOffer("A", raw, {"disgust", Raise})
          \/ ChatAccept("A", raw, {"disgust", Raise})
          \/ ChatGenerate("A", raw, {"disgust", Raise}, {GptOk}, {HfOkList})

SpecAssess == InitLong /\ [][NextAssess]_vars

\* ------------------------------------------------------------ properties
\* A request has been handled; Text is its message after strip().
Handled == turns > 0
Text == Stripped[message]

\* The text holds a keyword of the set, by the substring test on its lower case.
Mentions(words, text) == \E w \in words : Contains(w, Lowered[text])

\* C1: a message that holds a crisis phrase and is no reset command gets the
\* fixed safety message, in every stage and with or without the OpenAI key;
\* it gets no stress question and no result, and it never becomes an answer.
C1_CrisisOverride ==
    /\ (Handled /\ response.status = 200
          /\ Mentions(crisis_terms, Text) /\ ~Mentions(RESET_WORDS, Text))
          => /\ response.reply = CRISIS_REPLY
             /\ response.type \notin {"stress", "result"}
    /\ \A i \in 1..Len(state.answers) : ~Mentions(crisis_terms, state.answers[i])
    /\ \A i \in 1..Len(scored) : ~Mentions(crisis_terms, scored[i])

\* C2: a message that holds a reset keyword leaves stage None, no answers, no
\* pending offer and an empty context, whatever the state before; the reply is
\* the canned acknowledgement with type chat and nothing was scored or recorded.
C2_ResetUnconditional ==
    (Handled /\ Mentions(RESET_WORDS, Text))
       => /\ state.stage = None
          /\ state.answers = <<>>
          /\ state.offered_stress = FALSE
          /\ state.context = <<>>
          /\ response = [reply |-> RESET_REPLY, type |-> "chat", status |-> 200]
          /\ scored = <<>>

\* C2's case: the reset arrived in the middle of an assessment, with answers
\* collected and lines in the context.
C2_Witness ==
    /\ Handled
    /\ Mentions(RESET_WORDS, Text)
    /\ prev.stage = "stress"
    /\ Len(prev.answers) = 2
    /\ prev.context # <<>>

\* C2's second case: the reset arrived while an offer was pending.
C2_WitnessOffer ==
    Handled /\ Mentions(RESET_WORDS, Text) /\ prev.offered_stress

\* C3: an offer pending when a (non-empty, served) message arrives is no longer
\* pending after it, unless that message is itself answered by a new offer.
C3_OfferSingleTurn ==
    (Handled /\ Text # "" /\ response.status = 200 /\ prev.offered_stress)
       => (~state.offered_stress \/ response.type = "offer_test")

\* C7: with stage None, a relaxation keyword gets the resource listing even if
\* the text also holds a negative cue or an affirmative word with an offer
\* pending; and with an offer pending an affirmative word starts the
\* assessment even if the text also holds a negative cue.
C7_RouterOrder ==
    (Handled /\ Text # "" /\ response.status = 200 /\ prev.stage = None
       /\ ~Mentions(RESET_WORDS, Text) /\ ~Mentions(crisis_terms, Text))
       => /\ Mentions(RELAX_WORDS, Text) => response.type = "resource"
          /\ (~Mentions(RELAX_WORDS, Text) /\ prev.offered_stress
                /\ Mentions(AFFIRMATIVE_WORDS, Text))
                => (response.type = "stress" /\ state.stage = "stress")

\* C10: the context never holds more than 8 lines, and it is always the last
\* lines appended since the last reset, in the order they were appended: once a
\* 9th line is appended the oldest is gone and the former 2nd-oldest is first.
C10_ContextWindow ==
    LET ctx == state.context
        n   == Len(ctx)
    IN  /\ n <= 8
        /\ n = (IF Len(log) < 8 THEN Len(log) ELSE 8)
        /\ \A i \in 1..n : ctx[i] = log[Len(log) - n + i]

\* C10's case: a 9th line has been appended and the window is full.
C10_Witness == Len(log) >= 9 /\ Len(state.context) = 8 /\ state.context[1] = log[Len(log) - 7]

\* The last request went down the generation path and the classifier gave a label.
Generated == Handled /\ route = "generate" /\ emotion # Raise

\* A provider response is a success when it is well formed and its text is not
\* empty; a timeout, a transport error, a non-2xx status, a malformed payload
\* and an empty text are failures.
GptSucceeds(r) ==
    /\ ~r.exc /\ r.status = 200 /\ r.kind = "dict"
    /\ "choices" \in r.keys /\ r.n > 0 /\ Strip(r.text) # ""
HfSucceeds(r) ==
    /\ ~r.exc /\ "generated_text" \in r.keys /\ Strip(r.text) # ""
    /\ (r.kind = "dict" \/ (r.kind = "list" /\ r.n > 0))

\* The requests of the last call to one provider, and whether it succeeded
\* (its last response decides).
CallsTo(p) == SelectSeq(calls, LAMBDA c : c.provider = p)
NoSuccess(p) ==
    \/ CallsTo(p) = <<>>
    \/ LET r == CallsTo(p)[Len(CallsTo(p))].resp
       IN  IF p = "openai" THEN ~GptSucceeds(r) ELSE ~HfSucceeds(r)

\* OpenAI is out: unconfigured, or asked without success.
OpenAiFailed ==
    Falsy(OPENAI_KEY) \/ (CallsTo("openai") # <<>> /\ NoSuccess("openai"))

\* The entries of the static table under an emotion, neutral for any other label.
StaticEntries(emo) ==
    LET bucket == IF emo \in {"joy", "love", "sadness", "fear", "anger", "surprise", "neutral"}
                  THEN FALLBACK_RESPONSES[emo] ELSE FALLBACK_RESPONSES.neutral
    IN  {bucket[i] : i \in 1..Len(bucket)}

\* C4: on the generation path every combination of provider outcomes ends in a
\* non-empty reply of type chat with status 200.
C4_AlwaysUsableReply ==
    Generated => /\ response.status = 200
                 /\ response.type = "chat"
                 /\ response.reply # ""

\* C5: OpenAI is asked before Hugging Face and the static table comes last; the
\* reply is the output of the first provider that succeeds, and no provider
\* after it is asked.
C5_ChainPriority ==
    Generated =>
       /\ \A i, j \in 1..Len(calls) :
             (i < j /\ calls[i].provider = "hf") => calls[j].provider = "hf"
       /\ ~NoSuccess("openai")
             => /\ response.reply = Strip(CallsTo("openai")[1].resp.text)
                /\ CallsTo("hf") = <<>>
       /\ (OpenAiFailed /\ ~NoSuccess("hf"))
             => response.reply = Strip(CallsTo("hf")[Len(CallsTo("hf"))].resp.text)
       /\ (OpenAiFailed /\ NoSuccess("hf"))
             => response.reply \in StaticEntries(emotion)

\* C6: when OpenAI is unconfigured or fails and Hugging Face fails, the reply is
\* an entry of the static table under the detected emotion, or of the neutral
\* bucket for a label the table does not list.
C6_StaticFallback ==
    (Generated /\ OpenAiFailed /\ NoSuccess("hf"))
       => /\ response.reply \in StaticEntries(emotion)
          /\ emotion \notin DOMAIN FALLBACK_RESPONSES
                => response.reply \in StaticEntries("neutral")

\* C9: a request of one caller leaves the session of every other caller as it
\* was (SessionOf is the session chat() works on for a caller).
C9_SessionsIndependent ==
    Handled => \A other \in Callers \ {caller} : SessionOf(other, state) = SessionOf(other, prev)

\* C8: however answer submissions interleave, answers never holds more than 3
\* entries, a result scores exactly 3 answers and its score is in 0..9, and no
\* answer is appended once the stage is back to None.
C8_AnswersSerialized ==
    /\ Len(state.answers) <= 3
    /\ scored # <<>> => (Len(scored) = 3 /\ score_stress(scored) \in 0..9)
    /\ state.stage = None => state.answers = <<>>

\* The points of one answer, the score of a triple and the level of a score as
\* the assessment is specified, and the result reply that names a level.
SpecPoints(a) ==
    IF Mentions({"often"}, a) THEN 3
    ELSE IF Mentions({"sometimes"}, a) THEN 2
    ELSE IF Mentions({"rarely"}, a) THEN 1
    ELSE 0
SpecScore(answers) == SpecPoints(answers[1]) + SpecPoints(answers[2]) + SpecPoints(answers[3])
SpecLevel(score) ==
    IF score >= 7 THEN "High"
    ELSE IF 4 <= score /\ score < 7 THEN "Moderate"
    ELSE IF score < 4 THEN "Low"
    ELSE "no level"
LevelReply(level) == "Stress Level: " \o level \o " (advice and 3 suggested actions)"

\* C11: the guided assessment, turn by turn.  In an idle session a
\* negative-mood message is answered with type offer_test; with the offer
\* pending an affirmative message is answered with the first question and type
\* stress; the first and the second answer are answered with the 2nd and the
\* 3rd question and type stress; the third answer is answered with type result
\* and the level recommend(score(the three answers)), Moderate (score 6) for
\* often, sometimes, rarely, and leaves the session idle with no answers.
C11_GuidedAssessment ==
    (Handled /\ Text # "" /\ ~Mentions(RESET_WORDS, Text)) =>
       /\ (prev.stage = None /\ Mentions(NEGATIVE_WORDS, Text))
             => response.type = "offer_test"
       /\ (prev.stage = None /\ prev.offered_stress /\ ~Mentions(NEGATIVE_WORDS, Text)
              /\ Mentions(AFFIRMATIVE_WORDS, Text))
             => response = [reply |-> STRESS_QUESTIONS[1], type |-> "stress", status |-> 200]
       /\ (prev.stage = "stress" /\ Len(prev.answers) = 0)
             => response = [reply |-> STRESS_QUESTIONS[2], type |-> "stress", status |-> 200]
       /\ (prev.stage = "stress" /\ Len(prev.answers) = 1)
             => response = [reply |-> STRESS_QUESTIONS[3], type |-> "stress", status |-> 200]
       /\ (prev.stage = "stress" /\ Len(prev.answers) = 2)
             => LET answers == Append(prev.answers, Text)
                IN  /\ response.type = "result"
                    /\ response.reply = LevelReply(SpecLevel(SpecScore(answers)))
                    /\ answers = <<"often", "sometimes", "rarely">>
                          => (SpecScore(answers) = 6 /\ response.reply = LevelReply("Moderate"))
                    /\ state.stage = None
                    /\ state.answers = <<>>

\* C12: the score of every answer triple is the sum of 3 for an answer that
\* holds "often", else 2 for "sometimes", else 1 for "rarely", else 0, and lies
\* in 0..9; the level of every score is High from 7, Moderate from 4 to 6 and
\* Low below 4, so 3 is Low, 4 and 6 are Moderate and 7 is High; the same
\* triple always gets the same result.
C12_ScoreAndRecommend ==
    scored # <<>> =>
       LET score == SpecScore(scored)
       IN  /\ Len(scored) = 3
           /\ score_stress(scored) = score
           /\ score \in 0..9
           /\ response.reply = LevelReply(SpecLevel(score))
           /\ score = 3 => response.reply = LevelReply("Low")
           /\ score \in {4, 6} => response.reply = LevelReply("Moderate")
           /\ score = 7 => response.reply = LevelReply("High")

\* C12's case: a result for a triple that scores exactly 7, the lower bound of
\* High, one of its answers holding two of the scored words.
C12_Witness ==
    /\ scored = <<"not often, rarely", "sometimes", "sometimes">>
    /\ response.type = "result"
    /\ response.reply = LevelReply("High")

\* C12's other boundary: a result for a triple that scores exactly 4.
C12_WitnessModerate ==
    /\ scored # <<>>
    /\ SpecScore(scored) = 4
    /\ response.reply = LevelReply("Moderate")

\* The contract's reply types.
ReplyTypes == {"chat", "stress", "offer_test", "result", "resource"}

\* C13: no message is left unanswered because the classifier fails: outside
\* an assessment every message gets a reply of the contract, on the
\* generation path under a label (neutral if the classifier failed), and a
\* message that matches just one of the negative-mood, offer-acceptance and
\* relaxation rules gets that rule's reply, classifier available or not.
C13_ClassifierNeverBlocks ==
    (Handled /\ Text # "" /\ ~Mentions(RESET_WORDS, Text) /\ prev.stage = None) =>
       LET neg == Mentions(NEGATIVE_WORDS, Text)
           acc == prev.offered_stress /\ Mentions(AFFIRMATIVE_WORDS, Text)
           rel == Mentions(RELAX_WORDS, Text)
       IN  /\ response.status = 200
           /\ response.type \in ReplyTypes
           /\ emotion # Raise
           /\ (neg /\ ~acc /\ ~rel) => response.type = "offer_test"
           /\ (acc /\ ~neg /\ ~rel) => response.type = "stress"
           /\ (rel /\ ~neg /\ ~acc) => response.type = "resource"
           /\ (~neg /\ ~acc /\ ~rel) => response.type = "chat"

\* C14: within one request OpenAI is asked at most once and Hugging Face is
\* asked at most once, whatever the first answer of either was.
C14_NoRetry ==
    Generated => /\ Len(CallsTo("openai")) <= 1
                 /\ Len(CallsTo("hf")) <= 1

\* Whether the string s ends with the string e.
EndsWith(s, e) == Len(s) >= Len(e) /\ SubSeq(s, Len(s) - Len(e) + 1, Len(s)) = e

\* C17: a served message that is neither empty nor a reset leaves the context
\* as it was with the user's line and then the reply's line appended (the
\* window keeping the last 8), on every path; and every provider prompt of the
\* request ends with the user's line.
C17_TurnThenReply ==
    (Handled /\ Text # "" /\ ~Mentions(RESET_WORDS, Text) /\ response.status = 200) =>
       /\ state.context =
             LastN(prev.context \o <<"User: " \o Text, "MindMate: " \o response.reply>>, 8)
       /\ \A i \in 1..Len(calls) : EndsWith(calls[i].prompt, "User: " \o Text)

\* C18: a provider without its credential is not asked: with no OpenAI key no
\* request goes to OpenAI, with no Hugging Face token no request goes to
\* Hugging Face, and with neither the reply comes from the static table.
C18_NoCredentialNoCall ==
    Generated =>
       /\ Falsy(OPENAI_KEY) => CallsTo("openai") = <<>>
       /\ Falsy(HF_TOKEN) => CallsTo("hf") = <<>>
       /\ (Falsy(OPENAI_KEY) /\ Falsy(HF_TOKEN)) => response.reply \in StaticEntries(emotion)

\* One step of the assessment in progress, for the last request: its text is
\* appended to the answers it found; with 3 answers the reply is the result,
\* the stage is None and the answers are emptied; with fewer the reply is the
\* question indexed (from 0) by the new number of answers and the stage stays.
AssessmentStep ==
    LET answers == Append(prev.answers, Text)
    IN  IF Len(answers) = 3
        THEN /\ response.type = "result"
             /\ scored = answers
             /\ state.stage = None
             /\ state.answers = <<>>
        ELSE /\ state.answers = answers
             /\ Len(answers) \in DOMAIN STRESS_QUESTIONS
             /\ response = [reply |-> STRESS_QUESTIONS[Len(answers) + 1],
                            type |-> "stress", status |-> 200]
             /\ state.stage = "stress"

\* The answers are never more than 3, and a result is given on the third
\* answer of an assessment and at no other time.
AssessmentLength ==
    /\ Len(state.answers) \in 0..3
    /\ (Handled /\ response.type = "result")
          => (prev.stage = "stress" /\ Len(prev.answers) = 2 /\ Len(scored) = 3)

\* C15, as stated: during an assessment every message that is no reset
\* command takes the assessment one step on (AssessmentStep), and the answers
\* are never more than 3, the result coming on exactly the third.
C15_EveryMessageIsAnAnswer ==
    /\ (Handled /\ prev.stage = "stress" /\ ~Mentions(RESET_WORDS, Text)) => AssessmentStep
    /\ AssessmentLength

\* C15, amended: during an assessment every message that is not empty after
\* strip() and is no reset command takes the assessment one step on, and the
\* answers are never more than 3, the result coming on exactly the third.
C15_AssessmentStep ==
    /\ (Handled /\ prev.stage = "stress" /\ Text # "" /\ ~Mentions(RESET_WORDS, Text))
          => AssessmentStep
    /\ AssessmentLength

\* C15's case: the third answer of an assessment got the result.
C15_Witness ==
    /\ Handled
    /\ prev.stage = "stress"
    /\ Len(prev.answers) = 2
    /\ response.type = "result"
    /\ state.stage = None

\* C16: with stage None there are no answers (answers only during an
\* assessment), and an assessment with no answers yet is the state an
\* accepted offer left: the last request was the acceptance, or it came after
\* it and changed nothing.
C16_StageAnswers ==
    /\ state.stage = None => state.answers = <<>>
    /\ state.answers # <<>> => state.stage = "stress"
    /\ (state.stage = "stress" /\ state.answers = <<>>)
          => /\ Handled
             /\ \/ /\ prev.stage = None
                   /\ prev.offered_stress
                   /\ Mentions(AFFIRMATIVE_WORDS, Text)
                   /\ response = [reply |-> STRESS_QUESTIONS[1], type |-> "stress", status |-> 200]
                \/ /\ prev.stage = "stress"
                   /\ state = prev

\* C16's case: an offer was just accepted, the assessment has no answer yet.
C16_Witness ==
    /\ state.stage = "stress"
    /\ state.answers = <<>>
    /\ prev.stage = None
    /\ prev.offered_stress

\* C16's other case: an assessment has ended, stage None and no answers.
C16_WitnessEnded ==
    Handled /\ response.type = "result" /\ state.stage = None /\ state.answers = <<>>

\* The offer's line in the history of the context since the last reset.
OfferMade == \E i \in 1..Len(log) : log[i] = "MindMate: " \o OFFER_REPLY

\* C19: the stage goes from None to "stress" only in a request that found an
\* offer pending and whose text holds an affirmative word; a pending offer and
\* a running assessment both have an offer behind them with no reset since;
\* a request that finds stage None and no offer pending leaves stage None,
\* whatever its text; and during an assessment no offer is pending.
C19_EntryOnlyByAcceptedOffer ==
    /\ (Handled /\ prev.stage = None /\ state.stage = "stress")
          => /\ prev.offered_stress
             /\ Mentions(AFFIRMATIVE_WORDS, Text)
             /\ ~Mentions(RESET_WORDS, Text)
    /\ state.offered_stress => OfferMade
    /\ state.stage = "stress" => (OfferMade /\ ~state.offered_stress)
    /\ (Handled /\ prev.stage = None /\ ~prev.offered_stress) => state.stage = None

\* C19's cases: an offer was accepted and the assessment started; and an
\* affirmative message found no offer pending and started nothing.
C19_Witness ==
    /\ Handled
    /\ prev.stage = None
    /\ prev.offered_stress
    /\ state.stage = "stress"
    /\ Mentions(AFFIRMATIVE_WORDS, Text)

C19_WitnessUnoffered ==
    /\ Handled
    /\ prev.stage = None
    /\ ~prev.offered_stress
    /\ Mentions(AFFIRMATIVE_WORDS, Text)
    /\ ~Mentions(NEGATIVE_WORDS, Text)
    /\ response.status = 200
    /\ state.stage = None

\* C20: a message that is empty after strip() changes nothing of the session
\* (stage, answers, pending offer, context), is no answer of an assessment in
\* progress, reaches neither the classifier nor a provider nor the scoring,
\* and gets the fixed re-prompt with type chat.
C20_EmptyChangesNothing ==
    (Handled /\ Text = "") =>
       /\ state.stage = prev.stage
       /\ state.answers = prev.answers
       /\ state.offered_stress = prev.offered_stress
       /\ state.context = prev.context
       /\ emotion = None
       /\ calls = <<>>
       /\ scored = <<>>
       /\ response = [reply |-> EMPTY_REPLY, type |-> "chat", status |-> 200]

\* C20's case: the empty message arrived during an assessment.
C20_Witness ==
    /\ Handled
    /\ Text = ""
    /\ message # ""
    /\ prev.stage = "stress"
    /\ prev.context # <<>>

\* C20's other case: the empty message arrived while an offer was pending.
C20_WitnessOffer ==
    Handled /\ Text = "" /\ prev.stage = None /\ prev.offered_stress

====
